---- MODULE Spec2Model ----
(***************************************************************************)
(* A model of the terminal bridge, the command filter and the IDE session  *)
(* registry of cks-weight-room.                                            *)
(*                                                                         *)
(*   - Command filter (internal/security/commandfilter.go): the deny       *)
(*     patterns are Go regular expressions; they are kept here as a table  *)
(*     of regular-expression syntax trees and matched by a small matcher   *)
(*     (SeqEnds/Ends), over strings represented as sequences of            *)
(*     one-character strings.                                              *)
(*   - Terminal bridge (internal/api/terminal_secure_cli.go, two versions: *)
(*     HandleSecureTerminalCLI and handleWorkerNodeTerminal): the inbound  *)
(*     message loop with its line-assembly buffer.                         *)
(*   - IDE session registry (internal/api/export.go): getOrCreateSession,  *)
(*     cleanupIdleSessions, CleanupClusterSessions under h.mu.             *)
(***************************************************************************)
EXTENDS Integers, Sequences, FiniteSets, TLC

VARIABLES
    \* ---- command filter, as a pure function applied to one input
    fpc,          \* "input" before ValidateCommand ran, "done" after
    fcmd,         \* the command text handed to ValidateCommand
    fresult,      \* what ValidateCommand returned: [valid, reason]
    \* ---- terminal bridge, one connection
    handler,      \* "cli" (HandleSecureTerminalCLI) or "worker" (handleWorkerNodeTerminal)
    bpc,          \* "open" while the inbound loop runs, "closed" once the handler returned
    cmdBuffer,    \* the line-assembly buffer
    ptyIn,        \* every byte written to the PTY by the inbound loop, in order
    wsOut,        \* frames sent to the client by the inbound loop, in order
    blockedLog,   \* the "Blocked command" log lines: the command and the reason
    nmsgs,        \* number of inbound messages received so far
    lastMsg,      \* the inbound message handled by the last step
    \* ---- IDE session registry (IDEHandler) and its environment
    sessions,     \* h.sessions: session key -> pointer to an IDESession
    heap,         \* the IDESession objects, by pointer (1, 2, ..); 0 is nil
    nextPort,     \* h.nextPort
    mu,           \* h.mu: the goroutine holding the write lock, or "none"
    req,          \* per HandleIDEProxy goroutine: pc and local variables
    sweepPc,      \* cleanupIdleSessions: "wait", "sweeping", "stopping"
    sweepCur,     \* the key whose session the sweep is stopping
    tickPending,  \* the ticker fired and the sweep has not run since
    cleanPc,      \* CleanupClusterSessions: "idle", "cleaning", "stopping"
    cleanSlug,    \* its slug argument
    cleanCur,     \* the key whose session it is stopping
    now,          \* the clock, in minutes
    codeServers,  \* the code-server processes running in the KIND nodes
    proxies,      \* the ide-proxy containers running
    stopped,      \* the sessions stopSession was called on (its log line)
    \* ---- terminal connections: the handlers from the upgrade to the return
    peers,        \* the WebSocket connections of the run
    conn,         \* per connection: the handler's position, its locals, its PTY
    crashed,      \* the server process died of a panic outside a handler
    \* ---- server start-up: main from the terminal route to ListenAndServe
    env,          \* the value of SECURE_TERMINAL ("" when unset)
    dockerd,      \* whether `docker version` succeeds
    image,        \* what `docker images -q` finds for the terminal image
    listenPort,   \* whether the listen address can be bound
    spc,          \* main's position
    routes,       \* the handlers registered for /api/terminal/, in order
    \* ---- the session clock of one secure terminal
    elapsed,      \* hours since the session's container was started
    \* ---- the multi-terminal client (MultiTerminal.tsx)
    panes,        \* the panes state: [id, terminals, activeTerminalId]
    instancesRef, \* instancesRef.current: terminal id -> WebSocket
    terminalRefs, \* terminalRefs.current: the terminal ids with an element
    timers,       \* the pending setTimeout calls of initializeTerminal
    sockets,      \* the WebSockets created so far: [terminal, open]
    uiOps         \* number of user operations so far

filterVars == <<fpc, fcmd, fresult>>
bridgeVars == <<handler, bpc, cmdBuffer, ptyIn, wsOut, blockedLog, nmsgs, lastMsg>>
registryVars == <<sessions, heap, nextPort, mu, req, sweepPc, sweepCur, tickPending,
                  cleanPc, cleanSlug, cleanCur, now, codeServers, proxies, stopped>>
connVars == <<peers, conn, crashed>>
startVars == <<env, dockerd, image, listenPort, spc, routes>>
uiVars == <<panes, instancesRef, terminalRefs, timers, sockets, uiOps>>
restVars == <<startVars, elapsed, uiVars>>
vars == <<filterVars, bridgeVars, registryVars, connVars, restVars>>

(***************************************************************************)
(* Strings: sequences of one-character strings.                            *)
(***************************************************************************)
NUL == "NUL"   \* the byte 0x00

\* [0-9A-Za-z_]: the word characters of \b in Go's regexp (RE2)
WordChars ==
    {"a","b","c","d","e","f","g","h","i","j","k","l","m","n","o","p","q","r",
     "s","t","u","v","w","x","y","z",
     "A","B","C","D","E","F","G","H","I","J","K","L","M","N","O","P","Q","R",
     "S","T","U","V","W","X","Y","Z",
     "0","1","2","3","4","5","6","7","8","9","_"}

\* \s in RE2: [\t\n\f\r ]
ReSpace == {" ", "\t", "\n", "\f", "\r"}

\* the ASCII white space strings.TrimSpace removes
GoSpace == {" ", "\t", "\n", "\f", "\r"}

RECURSIVE TrimLeft(_)
TrimLeft(s) ==
    IF Len(s) > 0 /\ s[1] \in GoSpace THEN TrimLeft(Tail(s)) ELSE s

RECURSIVE TrimRight(_)
TrimRight(s) ==
    IF Len(s) > 0 /\ s[Len(s)] \in GoSpace
    THEN TrimRight(SubSeq(s, 1, Len(s) - 1))
    ELSE s

\* strings.TrimSpace
TrimSpace(s) == TrimRight(TrimLeft(s))

\* strings.ReplaceAll(s, c, "") for a one-character c
RemoveAll(s, c) == SelectSeq(s, LAMBDA x : x # c)

\* strings.Contains(s, c) for a one-character c
ContainsChar(s, c) == \E i \in 1..Len(s) : s[i] = c

\* strings.Count(s, c) for a one-character c
Count(s, c) == Cardinality({i \in 1..Len(s) : s[i] = c})

\* strings.Contains(s, sub)
Contains(s, sub) ==
    \E i \in 0..(Len(s) - Len(sub)) : SubSeq(s, i + 1, i + Len(sub)) = sub

\* strings.HasPrefix(s, prefix)
HasPrefix(s, prefix) ==
    Len(prefix) <= Len(s) /\ SubSeq(s, 1, Len(prefix)) = prefix

(***************************************************************************)
(* Regular expressions: a pattern is a sequence of nodes; Ends(n, s, P) is *)
(* the set of positions the match of node n can end at when it starts at a *)
(* position of P (a position is the number of characters consumed).        *)
(***************************************************************************)
L(c) == [t |-> "lit", c |-> c]
Lits(w) == [i \in 1..Len(w) |-> L(w[i])]
B == [t |-> "b"]                           \* \b
S == [t |-> "set", cs |-> ReSpace]         \* \s
OneOf(cs) == [t |-> "set", cs |-> cs]      \* [..]
Dot == [t |-> "dot"]                       \* . (any character but \n)
Star(n) == [t |-> "star", n |-> n]         \* n*
Plus(n) == <<n, Star(n)>>                  \* n+
Alt(rs) == [t |-> "alt", rs |-> rs]        \* (r1|r2|..)
Opt(n) == Alt(<< <<n>>, <<>> >>)           \* n?

IsWordAt(s, i) == i >= 1 /\ i <= Len(s) /\ s[i] \in WordChars

RECURSIVE Ends(_, _, _)
RECURSIVE SeqEnds(_, _, _)
RECURSIVE StarEnds(_, _, _)
Ends(n, s, P) ==
    CASE n.t = "lit"  -> {p + 1 : p \in {q \in P : q < Len(s) /\ s[q + 1] = n.c}}
      [] n.t = "set"  -> {p + 1 : p \in {q \in P : q < Len(s) /\ s[q + 1] \in n.cs}}
      [] n.t = "dot"  -> {p + 1 : p \in {q \in P : q < Len(s) /\ s[q + 1] # "\n"}}
      [] n.t = "b"    -> {p \in P : IsWordAt(s, p) # IsWordAt(s, p + 1)}
      [] n.t = "star" -> StarEnds(n.n, s, P)
      [] n.t = "alt"  -> UNION {SeqEnds(n.rs[i], s, P) : i \in 1..Len(n.rs)}

SeqEnds(re, s, P) ==
    IF Len(re) = 0 \/ P = {} THEN P
    ELSE SeqEnds(Tail(re), s, Ends(Head(re), s, P))

StarEnds(n, s, P) ==
    LET Q == P \cup Ends(n, s, P)
    IN  IF Q = P THEN P ELSE StarEnds(n, s, Q)

\* regexp.MatchString: the pattern matches somewhere in s
MatchString(re, s) == SeqEnds(re, s, 0..Len(s)) # {}

(***************************************************************************)
(* NewCommandFilter: the deny patterns, in list order.                     *)
(***************************************************************************)
blockedCommands ==
    << \* \brm\s+(-rf?|--recursive|--force)\s+/
       [Pattern |-> <<B>> \o Lits(<<"r","m">>) \o Plus(S)
                    \o <<Alt(<< Lits(<<"-","r">>) \o <<Opt(L("f"))>>,
                                Lits(<<"-","-","r","e","c","u","r","s","i","v","e">>),
                                Lits(<<"-","-","f","o","r","c","e">>) >>)>>
                    \o Plus(S) \o <<L("/")>>,
        Description |-> "Recursive delete from root"],
       \* \bdd\s+
       [Pattern |-> <<B>> \o Lits(<<"d","d">>) \o Plus(S),
        Description |-> "Direct disk access (dd command)"],
       \* \bmkfs
       [Pattern |-> <<B>> \o Lits(<<"m","k","f","s">>),
        Description |-> "Filesystem creation"],
       \* \bfdisk
       [Pattern |-> <<B>> \o Lits(<<"f","d","i","s","k">>),
        Description |-> "Disk partitioning"],
       \* \bparted
       [Pattern |-> <<B>> \o Lits(<<"p","a","r","t","e","d">>),
        Description |-> "Disk partitioning"],
       \* \breboot\b
       [Pattern |-> <<B>> \o Lits(<<"r","e","b","o","o","t">>) \o <<B>>,
        Description |-> "System reboot"],
       \* \bshutdown\b
       [Pattern |-> <<B>> \o Lits(<<"s","h","u","t","d","o","w","n">>) \o <<B>>,
        Description |-> "System shutdown"],
       \* \bhalt\b
       [Pattern |-> <<B>> \o Lits(<<"h","a","l","t">>) \o <<B>>,
        Description |-> "System halt"],
       \* \bpoweroff\b
       [Pattern |-> <<B>> \o Lits(<<"p","o","w","e","r","o","f","f">>) \o <<B>>,
        Description |-> "System poweroff"],
       \* \binit\s+[06]
       [Pattern |-> <<B>> \o Lits(<<"i","n","i","t">>) \o Plus(S) \o <<OneOf({"0","6"})>>,
        Description |-> "System reboot/halt via init"],
       \* \bsudo\b
       [Pattern |-> <<B>> \o Lits(<<"s","u","d","o">>) \o <<B>>,
        Description |-> "Sudo execution"],
       \* \bsu\s
       [Pattern |-> <<B>> \o Lits(<<"s","u">>) \o <<S>>,
        Description |-> "Switch user"],
       \* \b(nmap|masscan)\b
       [Pattern |-> <<B, Alt(<< Lits(<<"n","m","a","p">>),
                                Lits(<<"m","a","s","s","c","a","n">>) >>), B>>,
        Description |-> "Network scanning"],
       \* \bmetasploit\b
       [Pattern |-> <<B>> \o Lits(<<"m","e","t","a","s","p","l","o","i","t">>) \o <<B>>,
        Description |-> "Metasploit framework"],
       \* \bkill\s+-9\s+1\b
       [Pattern |-> <<B>> \o Lits(<<"k","i","l","l">>) \o Plus(S) \o Lits(<<"-","9">>)
                    \o Plus(S) \o <<L("1"), B>>,
        Description |-> "Kill init process"],
       \* \bkillall\s+-9
       [Pattern |-> <<B>> \o Lits(<<"k","i","l","l","a","l","l">>) \o Plus(S)
                    \o Lits(<<"-","9">>),
        Description |-> "Force kill all processes"],
       \* :\(\)\{.*:\|:.*\};:
       [Pattern |-> Lits(<<":","(",")","{">>) \o <<Star(Dot)>> \o Lits(<<":","|",":">>)
                    \o <<Star(Dot)>> \o Lits(<<"}",";",":">>),
        Description |-> "Fork bomb"],
       \* \bwhile\s+true.*do.*done
       [Pattern |-> <<B>> \o Lits(<<"w","h","i","l","e">>) \o Plus(S)
                    \o Lits(<<"t","r","u","e">>) \o <<Star(Dot)>> \o Lits(<<"d","o">>)
                    \o <<Star(Dot)>> \o Lits(<<"d","o","n","e">>),
        Description |-> "Infinite loop"],
       \* \bchroot\b
       [Pattern |-> <<B>> \o Lits(<<"c","h","r","o","o","t">>) \o <<B>>,
        Description |-> "Chroot escape attempt"],
       \* \bdocker\s+(run|exec)\b
       [Pattern |-> <<B>> \o Lits(<<"d","o","c","k","e","r">>) \o Plus(S)
                    \o <<Alt(<< Lits(<<"r","u","n">>), Lits(<<"e","x","e","c">>) >>), B>>,
        Description |-> "Docker escape attempt"],
       \* \bnsenter\b
       [Pattern |-> <<B>> \o Lits(<<"n","s","e","n","t","e","r">>) \o <<B>>,
        Description |-> "Namespace escape"],
       \* base64.*-d.*\|.*sh
       [Pattern |-> Lits(<<"b","a","s","e","6","4">>) \o <<Star(Dot)>> \o Lits(<<"-","d">>)
                    \o <<Star(Dot), L("|"), Star(Dot)>> \o Lits(<<"s","h">>),
        Description |-> "Base64 decode and execute"],
       \* echo.*\|.*base64.*-d
       [Pattern |-> Lits(<<"e","c","h","o">>) \o <<Star(Dot), L("|"), Star(Dot)>>
                    \o Lits(<<"b","a","s","e","6","4">>) \o <<Star(Dot)>>
                    \o Lits(<<"-","d">>),
        Description |-> "Encoded command execution"] >>

\* the suspicious character sequences of ValidateCommand
suspiciousPatterns ==
    << <<".",".","/",".",".","/",".",".">>,
       <<"/","d","e","v","/","n","u","l","l">>,
       <<"&",">","/","d","e","v","/","n","u","l","l">> >>

\* program constants of ValidateCommand
MaxPipes == 5
MaxSemicolons == 5
MaxCmdLen == 1000
MaxSuspicious == 2

\* a reason is the text "Blocked: " followed by a description
Accepted == [valid |-> TRUE, reason |-> <<>>]
Rejected(why) == [valid |-> FALSE, reason |-> <<"Blocked: ", why>>]

\* the deny patterns that match s, as indexes into blockedCommands
Matching(s) ==
    {i \in 1..Len(blockedCommands) : MatchString(blockedCommands[i].Pattern, s)}

Min(X) == CHOOSE x \in X : \A y \in X : x <= y

\* the first of the deny patterns that matches s
FirstBlocked(s) == blockedCommands[Min(Matching(s))]

\* the heuristics that follow the deny patterns in ValidateCommand
Heuristics(cmd) ==
    IF Count(cmd, "|") > MaxPipes THEN Rejected("Excessive command chaining")
    ELSE IF Count(cmd, ";") > MaxSemicolons
         THEN Rejected("Excessive command chaining")
    ELSE IF Len(cmd) > MaxCmdLen THEN Rejected("Command too long")
    ELSE IF Cardinality({i \in 1..Len(suspiciousPatterns) :
                            Contains(cmd, suspiciousPatterns[i])}) > MaxSuspicious
         THEN Rejected("Suspicious pattern detected")
    ELSE Accepted

\* CommandFilter.ValidateCommand
ValidateCommand(c) ==
    LET cmd == TrimSpace(c)
    IN  IF cmd = <<>> THEN Accepted
        ELSE IF Matching(cmd) # {}
             THEN Rejected(FirstBlocked(cmd).Description)
        ELSE Heuristics(cmd)

\* SanitizeInput if it also trimmed the white space
SanitizeInputTrim(input) == TrimSpace(RemoveAll(input, NUL))

\* CommandFilter.SanitizeInput: removes the NUL bytes
SanitizeInput(input) == RemoveAll(input, NUL)

(***************************************************************************)
(* The command filter as a pure function: one input, one call.             *)
(***************************************************************************)
\* bound: an input of the filter is made of at most MaxTokens tokens
MaxTokens == 3

FilterTokens ==
    { <<"s","u">>, <<"s","u","d","o">>, <<"k","u">>, <<"d","d">>, <<"l","s">>,
      <<"r","m">>, <<"-","r","f">>, <<"/">>, <<" ">>, <<"|">>, <<"\n">> }

RECURSIVE Concats(_)
Concats(n) ==
    IF n = 0 THEN {<<>>}
    ELSE LET shorter == Concats(n - 1)
         IN  shorter \cup {s \o t : s \in shorter, t \in FilterTokens}

\* strings.Repeat(s, n)
Repeat(s, n) == [i \in 1..(n * Len(s)) |-> s[((i - 1) % Len(s)) + 1]]

DevNull == suspiciousPatterns[2]

\* inputs on both sides of each threshold of the heuristics
HeuristicInputs ==
    { Repeat(<<"a","|">>, MaxPipes),
      Repeat(<<"a","|">>, MaxPipes + 1),
      Repeat(<<"a",";">>, MaxSemicolons),
      Repeat(<<"a",";">>, MaxSemicolons + 1),
      Repeat(<<"a">>, MaxCmdLen),
      Repeat(<<"a">>, MaxCmdLen + 1),
      Repeat(<<"a">>, MaxCmdLen) \o <<" ">>,
      <<"a",">">> \o DevNull,
      Repeat(<<"a",">">> \o DevNull \o <<" ">>, MaxSuspicious) \o <<"a">>,
      Repeat(<<"a",">">> \o DevNull \o <<" ">>, MaxSuspicious + 1) \o <<"a">>,
      <<"a">> \o suspiciousPatterns[3],
      suspiciousPatterns[1] \o <<" ">> \o suspiciousPatterns[3] }

\* inputs in which a denied name is a word or a part of a longer word
WordInputs ==
    { <<"s","u","d","o","k","u"," ","-","-","h","e","l","p">>,
      <<"m","k","f","s","x">>,
      <<"m","k","f","s",".","e","x","t","4"," ","/","d","e","v","/","s","d","a">>,
      <<"f","d","i","s","k","s">>,
      <<"p","a","r","t","e","d","x">>,
      <<"r","e","b","o","o","t","e","r">>,
      <<"n","s","e","n","t","e","r","s">>,
      <<"x","e","c","h","o"," ","a","|","b","a","s","e","6","4","x"," ","-","d">>,
      <<"d","o","c","k","e","r"," ","r","u","n","n","e","r">> }

FilterInputs == Concats(MaxTokens) \cup HeuristicInputs \cup WordInputs

NoResult == [valid |-> TRUE, reason |-> <<"none">>]

BridgeIdle ==
    /\ handler = "none" /\ bpc = "none" /\ cmdBuffer = <<>> /\ ptyIn = <<>>
    /\ wsOut = <<>> /\ blockedLog = <<>> /\ nmsgs = 0
    /\ lastMsg = [type |-> "none", data |-> <<>>, checked |-> FALSE]

\* the empty map
EmptyMap == [k \in {} |-> 0]

RegistryIdle ==
    /\ sessions = EmptyMap /\ heap = <<>> /\ nextPort = 0 /\ mu = "none"
    /\ req = EmptyMap /\ sweepPc = "none" /\ sweepCur = <<>> /\ tickPending = FALSE
    /\ cleanPc = "none" /\ cleanSlug = <<>> /\ cleanCur = <<>> /\ now = 0
    /\ codeServers = {} /\ proxies = {} /\ stopped = {}

FilterIdle == fpc = "none" /\ fcmd = <<>> /\ fresult = NoResult

ConnIdle == peers = {} /\ conn = EmptyMap /\ crashed = FALSE

StartIdle ==
    /\ env = <<>> /\ dockerd = "none" /\ image = "none" /\ listenPort = "none"
    /\ spc = "none" /\ routes = <<>>

UiIdle ==
    /\ panes = <<>> /\ instancesRef = EmptyMap /\ terminalRefs = {}
    /\ timers = <<>> /\ sockets = <<>> /\ uiOps = 0

RestIdle == StartIdle /\ elapsed = 0 /\ UiIdle

FilterInit ==
    /\ fpc = "input"
    /\ fcmd \in FilterInputs
    /\ fresult = NoResult
    /\ BridgeIdle
    /\ RegistryIdle
    /\ ConnIdle
    /\ RestIdle

\* a caller applies ValidateCommand to the input
Validate ==
    /\ fpc = "input"
    /\ fresult' = ValidateCommand(fcmd)
    /\ fpc' = "done"
    /\ UNCHANGED <<fcmd, bridgeVars, registryVars, connVars, restVars>>

FilterNext == Validate

SpecFilter == FilterInit /\ [][FilterNext]_vars

\* the number of places of s where sub occurs
Occurrences(s, sub) ==
    Cardinality({i \in 0..(Len(s) - Len(sub)) : SubSeq(s, i + 1, i + Len(sub)) = sub})

\* the occurrences in s of the entries of a list of substrings, all together
RECURSIVE TotalOccurrences(_, _)
TotalOccurrences(s, subs) ==
    IF subs = <<>> THEN 0
    ELSE Occurrences(s, Head(subs)) + TotalOccurrences(s, Tail(subs))

\* the conditions the heuristics are described by, on the trimmed text
OverThreshold(s) ==
    \/ Count(s, "|") > MaxPipes
    \/ Count(s, ";") > MaxSemicolons
    \/ Len(s) > MaxCmdLen
    \/ TotalOccurrences(s, suspiciousPatterns) > MaxSuspicious

\* C19: for a text that matches no deny pattern, ValidateCommand returns a
\* rejection exactly when the text has more than 5 pipes, or more than 5
\* semicolons, or more than 1000 characters, or more than 2 occurrences of
\* entries of the suspicious substrings; otherwise it returns Accepted.
C19_HeuristicsExact ==
    (fpc = "done" /\ Matching(fcmd) = {})
        => /\ fresult.valid = ~OverThreshold(TrimSpace(fcmd))
           /\ fresult.valid => fresult = Accepted

\* the command names the deny patterns are written for, in list order
DeniedNames ==
    << {<<"r","m">>},
       {<<"d","d">>},
       {<<"m","k","f","s">>},
       {<<"f","d","i","s","k">>},
       {<<"p","a","r","t","e","d">>},
       {<<"r","e","b","o","o","t">>},
       {<<"s","h","u","t","d","o","w","n">>},
       {<<"h","a","l","t">>},
       {<<"p","o","w","e","r","o","f","f">>},
       {<<"i","n","i","t">>},
       {<<"s","u","d","o">>},
       {<<"s","u">>},
       {<<"n","m","a","p">>, <<"m","a","s","s","c","a","n">>},
       {<<"m","e","t","a","s","p","l","o","i","t">>},
       {<<"k","i","l","l">>},
       {<<"k","i","l","l","a","l","l">>},
       {},
       {<<"w","h","i","l","e">>},
       {<<"c","h","r","o","o","t">>},
       {<<"d","o","c","k","e","r">>},
       {<<"n","s","e","n","t","e","r">>},
       {<<"b","a","s","e","6","4">>},
       {<<"e","c","h","o">>, <<"b","a","s","e","6","4">>} >>

\* n occurs in s as a word of its own
WholeWord(s, n) ==
    \E i \in 0..(Len(s) - Len(n)) :
        /\ SubSeq(s, i + 1, i + Len(n)) = n
        /\ i = 0 \/ s[i] \notin WordChars
        /\ i + Len(n) = Len(s) \/ s[i + Len(n) + 1] \notin WordChars

\* C21: a deny pattern matches whole command names only: a text in which
\* the names of a pattern occur only inside longer words is not matched
\* (and so not rejected) by that pattern, for every pattern of the list.
C21_WholeNamesOnly ==
    fpc = "done" =>
        \A i \in Matching(TrimSpace(fcmd)) :
            \/ DeniedNames[i] = {}
            \/ \E n \in DeniedNames[i] : WholeWord(TrimSpace(fcmd), n)

(***************************************************************************)
(* The terminal bridge: the inbound loop of HandleSecureTerminalCLI        *)
(* ("cli") and of handleWorkerNodeTerminal ("worker").  The state starts   *)
(* after the PTY was started and the set-up commands were sent; ptyIn      *)
(* holds what the inbound loop writes after that.                          *)
(***************************************************************************)
\* bound: number of inbound messages of one connection
MaxMsgs == 4

Handlers == {"cli", "worker"}

\* the data of the input messages a client sends
Chunks ==
    { <<"s","u","d","o">>,                          \* keystrokes, no Enter
      <<"\r">>,                                     \* Enter
      <<"s","u","d","o","\r">>,                     \* a whole denied line
      <<"l","s","\r">>,                             \* a whole benign line
      <<"l","s","\n","s","u","d","o","\n">>,        \* two lines pasted at once
      <<"l","s","\r","l">>,                         \* a line and the start of the next
      <<"l",NUL,"s","\r">> }                        \* a line with a NUL byte in it

Terminators == {"\n", "\r"}

\* strings.Contains(sanitized, "\n") || strings.Contains(sanitized, "\r")
HasTerminator(s) == ContainsChar(s, "\n") \/ ContainsChar(s, "\r")

\* strings.TrimSpace(ReplaceAll(ReplaceAll(cmdBuffer, "\n", ""), "\r", ""))
ExtractCommand(buf) == TrimSpace(RemoveAll(RemoveAll(buf, "\n"), "\r"))

\* what the handler writes to the PTY when it rejects a line
RejectPtyBytes(h) == IF h = "worker" THEN <<"\r", "\n">> ELSE <<>>

\* the warning frame: "Command blocked: <reason>" in red
WarningFrame(reason) == [kind |-> "warning", reason |-> reason]

\* PolicyChecked if the handler validated every completed line
PolicyCheckedAlways(buf) == TRUE

\* if cmd != "": whether the handler calls ValidateCommand for the line
PolicyChecked(buf) == ExtractCommand(buf) # <<>>

\* whether the line completed by an input message is rejected
LineRejected(buf) ==
    PolicyChecked(buf) /\ ~ValidateCommand(ExtractCommand(buf)).valid

BridgeInit ==
    /\ handler \in Handlers
    /\ bpc = "open"
    /\ cmdBuffer = <<>>
    /\ ptyIn = <<>>
    /\ wsOut = <<>>
    /\ blockedLog = <<>>
    /\ nmsgs = 0
    /\ lastMsg = [type |-> "none", data |-> <<>>, checked |-> FALSE]
    /\ FilterIdle
    /\ RegistryIdle
    /\ ConnIdle
    /\ RestIdle

\* conn.ReadMessage returned an input message
Received(data) ==
    /\ bpc = "open"
    /\ nmsgs < MaxMsgs
    /\ nmsgs' = nmsgs + 1
    /\ lastMsg' = [type |-> "input", data |-> data,
                   checked |-> LET sanitized == SanitizeInput(data)
                               IN  /\ HasTerminator(sanitized)
                                   /\ PolicyChecked(cmdBuffer \o sanitized)]

\* case "input", no line terminator in the data: buffered and written
InputKeystrokes(data) ==
    LET sanitized == SanitizeInput(data)
    IN  /\ Received(data)
        /\ ~HasTerminator(sanitized)
        /\ cmdBuffer' = cmdBuffer \o sanitized
        /\ ptyIn' = ptyIn \o sanitized
        /\ UNCHANGED <<handler, bpc, wsOut, blockedLog, filterVars, registryVars, connVars, restVars>>

\* case "input", the data completes a line that passes: written as received
InputAccepted(data) ==
    LET sanitized == SanitizeInput(data)
    IN  /\ Received(data)
        /\ HasTerminator(sanitized)
        /\ ~LineRejected(cmdBuffer \o sanitized)
        /\ cmdBuffer' = <<>>
        /\ ptyIn' = ptyIn \o sanitized
        /\ UNCHANGED <<handler, bpc, wsOut, blockedLog, filterVars, registryVars, connVars, restVars>>

\* case "input", the data completes a line that is rejected: warning, continue
InputRejected(data) ==
    LET sanitized == SanitizeInput(data)
        cmd == ExtractCommand(cmdBuffer \o sanitized)
        reason == ValidateCommand(cmd).reason
    IN  /\ Received(data)
        /\ HasTerminator(sanitized)
        /\ LineRejected(cmdBuffer \o sanitized)
        /\ cmdBuffer' = <<>>
        /\ ptyIn' = ptyIn \o RejectPtyBytes(handler)
        /\ wsOut' = Append(wsOut, WarningFrame(reason))
        /\ blockedLog' = Append(blockedLog, [cmd |-> cmd, reason |-> reason])
        /\ UNCHANGED <<handler, bpc, filterVars, registryVars, connVars, restVars>>

\* case "input", ptmx.Write fails: the handler returns
InputWriteError(data) ==
    LET sanitized == SanitizeInput(data)
    IN  /\ Received(data)
        /\ ~(HasTerminator(sanitized) /\ LineRejected(cmdBuffer \o sanitized))
        /\ cmdBuffer' = IF HasTerminator(sanitized) THEN <<>>
                        ELSE cmdBuffer \o sanitized
        /\ bpc' = "closed"
        /\ UNCHANGED <<handler, ptyIn, wsOut, blockedLog, filterVars, registryVars, connVars, restVars>>

\* conn.ReadMessage fails (the client closed the connection): the handler returns
ReadError ==
    /\ bpc = "open"
    /\ bpc' = "closed"
    /\ UNCHANGED <<handler, cmdBuffer, ptyIn, wsOut, blockedLog, nmsgs, lastMsg,
                   filterVars, registryVars, connVars, restVars>>

BridgeNext ==
    \/ \E data \in Chunks : InputKeystrokes(data)
    \/ \E data \in Chunks : InputAccepted(data)
    \/ \E data \in Chunks : InputRejected(data)
    \/ \E data \in Chunks : InputWriteError(data)
    \/ ReadError

Spec == BridgeInit /\ [][BridgeNext]_vars

(***************************************************************************)
(* Claims about the filter and the bridge.                                 *)
(***************************************************************************)
IsSuffix(a, b) ==
    Len(a) <= Len(b) /\ SubSeq(b, Len(b) - Len(a) + 1, Len(b)) = a

TermPos(s) == {i \in 1..Len(s) : s[i] \in Terminators}

Max(X) == CHOOSE x \in X : \A y \in X : x >= y

\* the text between two consecutive line terminators (or the start) of s
CompletedLines(s) ==
    {SubSeq(s, Max({0} \cup {a \in TermPos(s) : a < b}) + 1, b - 1) : b \in TermPos(s)}

\* the text that follows the last line terminator of s
AfterLastTerminator(s) == SubSeq(s, Max({0} \cup TermPos(s)) + 1, Len(s))

\* the step handles an input message / rejects the line it completed
InputStep == nmsgs' = nmsgs + 1 /\ lastMsg'.type = "input"
RejectStep == InputStep /\ Len(blockedLog') = Len(blockedLog) + 1

\* C1: the byte stream written to the PTY never contains a command line that
\* ValidateCommand rejects followed by a line terminator.
C1_RejectedNeverSubmitted ==
    \A l \in CompletedLines(ptyIn) : ValidateCommand(l).valid

\* C2: when the assembled line is rejected, none of its bytes are written to
\* the PTY: the bytes of earlier messages of the line (the buffer) have not
\* been written, and the step writes nothing of the message that carried the
\* terminator (at most the handler's own bare terminator).
C2_RejectedLineNotWritten ==
    [][RejectStep =>
          /\ ~(cmdBuffer # <<>> /\ IsSuffix(cmdBuffer, ptyIn))
          /\ \E t \in {<<>>, <<"\n">>, <<"\r">>, <<"\r", "\n">>} : ptyIn' = ptyIn \o t
      ]_vars

\* C3: an input message with k >= 1 terminators has each of the k completed
\* lines evaluated on its own (the message is rejected exactly when one of the
\* lines is), and the text after the last terminator stays in the buffer.
C3_EachLineEvaluated ==
    [][(InputStep /\ HasTerminator(lastMsg'.data) /\ bpc' = "open") =>
          LET buf == cmdBuffer \o SanitizeInput(lastMsg'.data)
          IN  /\ RejectStep <=> \E l \in CompletedLines(buf) : ~ValidateCommand(l).valid
              /\ cmdBuffer' = AfterLastTerminator(buf)
      ]_vars

\* C4: a command text that matches a deny pattern is Rejected with the reason of
\* the first pattern, in list order, that matches it, whatever white space and
\* pipeline segments surround the matching part.
C4_DenyPatternRejected ==
    (fpc = "done" /\ Matching(fcmd) # {}) =>
        fresult = Rejected(FirstBlocked(fcmd).Description)

C6_RejectionAnswer ==
    [][RejectStep =>
          /\ wsOut' = Append(wsOut, WarningFrame(blockedLog'[Len(blockedLog')].reason))
          /\ \E t \in {<<"\n">>, <<"\r">>, <<"\r", "\n">>} : ptyIn' = ptyIn \o t
          /\ cmdBuffer' = <<>>
          /\ bpc' = "open"
      ]_vars

(***************************************************************************)
(* The IDE session registry (IDEHandler): HandleIDEProxy goroutines, the   *)
(* cleanupIdleSessions goroutine and a caller of CleanupClusterSessions,   *)
(* with the docker environment they act on.  A step is one lock operation  *)
(* or one docker command.  The clock counts minutes and advances by the    *)
(* ticker period; a sweep pass (its stopSession calls are bounded by a 10  *)
(* second timeout each) takes no time on that scale.                       *)
(***************************************************************************)
\* bounds: port allocations, and the last minute of the clock
MaxAlloc == 2
MaxClock == 35

\* program constants
FirstPort == 8081        \* NewIDEHandler: nextPort
CodeServerBase == 8080   \* startCodeServer: localPort := 9000 + (port - 8080)
ProxyBase == 9000
IdleMinutes == 30        \* cleanupIdleSessions: 30*time.Minute
TickerMinutes == 5       \* cleanupIdleSessions: time.NewTicker(5 * time.Minute)

Procs == {"p1", "p2"}
ProcOrder == [p \in Procs |-> IF p = "p1" THEN 1 ELSE 2]
Sweeper == "sweeper"
Cleaner == "cleaner"
NoLock == "none"
Nil == 0

\* the (slug, node) pairs of the requests, and the slugs of the clusters deleted
Targets ==
    { [slug |-> <<"a">>, node |-> <<"n">>],
      [slug |-> <<"a">>, node |-> <<"b", "-", "n">>],
      [slug |-> <<"a", "-", "b">>, node |-> <<"n">>] }
Slugs == {t.slug : t \in Targets}

\* fmt.Sprintf("%s-%s", slug, nodeName)
SessionKey(slug, node) == slug \o <<"-">> \o node

MapPut(m, k, v) == [x \in DOMAIN m \cup {k} |-> IF x = k THEN v ELSE m[x]]
MapDelete(m, k) == [x \in DOMAIN m \ {k} |-> m[x]]
Range(m) == {m[x] : x \in DOMAIN m}

IdleReq == [pc |-> "idle", slug |-> <<>>, node |-> <<>>, found |-> Nil,
            port |-> 0, ret |-> Nil]

KeyOf(p) == SessionKey(req[p].slug, req[p].node)

\* an IDESession object nothing refers to any more (collected by the Go runtime)
Collected == [NodeName |-> <<>>, Port |-> 0, LastAccess |-> 0]

\* the heap h once the sessions that neither the map m nor a local variable of
\* a request r refers to have been collected
Collect(h, m, r) ==
    [i \in DOMAIN h |->
        IF i \in Range(m) \/ \E p \in Procs : i \in {r[p].found, r[p].ret}
        THEN h[i] ELSE Collected]

\* isSessionHealthy: docker exec <node> pgrep -f code-server
isSessionHealthy(ptr) == \E c \in codeServers : c.node = heap[ptr].NodeName

\* getOrCreateSession without the double-check: a caller that took the write
\* lock always constructs
DoubleCheckSkipped(key) == FALSE
\* the double-check of getOrCreateSession under the write lock
DoubleCheck(key) == key \in DOMAIN sessions /\ isSessionHealthy(sessions[key])

\* stopSession: pkill -f 'code-server.*:<session.Port>' in the session's node.
\* The processes it kills are those whose command line has ":<Port>" in it:
\* the code-server processes bound to that port (ports here have 4 digits).
PkillTargets(ptr) ==
    {c \in codeServers : c.node = heap[ptr].NodeName /\ c.port = heap[ptr].Port}

\* a sweep that also takes the sessions that are exactly 30 minutes old
IsIdleAtThreshold(ptr) == now - heap[ptr].LastAccess >= IdleMinutes
\* time.Since(session.LastAccess) > 30*time.Minute
IsIdle(ptr) == now - heap[ptr].LastAccess > IdleMinutes

RegistryInit ==
    /\ sessions = EmptyMap
    /\ heap = <<>>
    /\ nextPort = FirstPort
    /\ mu = NoLock
    /\ req = [p \in Procs |-> IdleReq]
    /\ sweepPc = "wait" /\ sweepCur = <<>> /\ tickPending = FALSE
    /\ cleanPc = "idle" /\ cleanSlug = <<>> /\ cleanCur = <<>>
    /\ now = 0
    /\ codeServers = {} /\ proxies = {} /\ stopped = {}
    /\ FilterIdle /\ BridgeIdle /\ ConnIdle /\ RestIdle

sweepVars == <<sweepPc, sweepCur, tickPending>>
cleanVars == <<cleanPc, cleanSlug, cleanCur>>
dockerVars == <<codeServers, proxies, stopped>>

\* a goroutine may begin a request: every request in flight can still be given
\* a port; the goroutines are interchangeable, and a request is served by the
\* first one that is free
MayBegin(p) ==
    /\ req[p].pc = "idle"
    /\ \A q \in Procs : req[q].pc = "idle" => ProcOrder[p] <= ProcOrder[q]
    /\ nextPort + Cardinality({q \in Procs : req[q].pc # "idle"})
          < FirstPort + MaxAlloc

\* getOrCreateSession: RLock; session, exists := h.sessions[key]; RUnlock.
\* A key that is not in the map takes the goroutine straight to h.mu.Lock().
Looked(slug, node) ==
    LET key == SessionKey(slug, node)
        exists == key \in DOMAIN sessions
    IN  [IdleReq EXCEPT !.slug = slug, !.node = node,
                        !.found = IF exists THEN sessions[key] ELSE Nil,
                        !.pc = IF exists THEN "check1" ELSE "wantlock"]

\* HandleIDEProxy is called without a node parameter: under RLock it takes the
\* node of any session whose key starts with "<slug>-" (when there is none the
\* request is answered 400 and nothing changes)
Resolve(p, slug) ==
    /\ MayBegin(p)
    /\ mu = NoLock
    /\ \E k \in DOMAIN sessions :
          /\ HasPrefix(k, slug \o <<"-">>)
          /\ req' = [req EXCEPT ![p] =
                        [IdleReq EXCEPT !.slug = slug,
                                        !.node = heap[sessions[k]].NodeName,
                                        !.pc = "resolved"]]
    /\ UNCHANGED <<sessions, heap, nextPort, mu, sweepVars, cleanVars, now,
                   dockerVars, filterVars, bridgeVars, connVars, restVars>>

\* getOrCreateSession reads the map for the node that was resolved
LookupResolved(p) ==
    /\ req[p].pc = "resolved"
    /\ mu = NoLock
    /\ req' = [req EXCEPT ![p] = Looked(req[p].slug, req[p].node)]
    /\ UNCHANGED <<sessions, heap, nextPort, mu, sweepVars, cleanVars, now,
                   dockerVars, filterVars, bridgeVars, connVars, restVars>>

\* HandleIDEProxy is called for (slug, node), and getOrCreateSession reads the
\* map
Lookup(p, t) ==
    /\ MayBegin(p)
    /\ mu = NoLock
    /\ req' = [req EXCEPT ![p] = Looked(t.slug, t.node)]
    /\ UNCHANGED <<sessions, heap, nextPort, mu, sweepVars, cleanVars, now,
                   dockerVars, filterVars, bridgeVars, connVars, restVars>>

\* getOrCreateSession: if exists && h.isSessionHealthy(session) { return session }
Check1(p) ==
    /\ req[p].pc = "check1"
    /\ req' = IF req[p].found # Nil /\ isSessionHealthy(req[p].found)
              THEN [req EXCEPT ![p].ret = req[p].found, ![p].found = Nil,
                               ![p].pc = "update"]
              ELSE [req EXCEPT ![p].found = Nil, ![p].pc = "wantlock"]
    /\ heap' = Collect(heap, sessions, req')
    /\ UNCHANGED <<sessions, nextPort, mu, sweepVars, cleanVars, now, dockerVars,
                   filterVars, bridgeVars, connVars, restVars>>

\* getOrCreateSession: h.mu.Lock()
AcquireLock(p) ==
    /\ req[p].pc = "wantlock"
    /\ mu = NoLock
    /\ mu' = p
    /\ req' = [req EXCEPT ![p].pc = "check2"]
    /\ UNCHANGED <<sessions, heap, nextPort, sweepVars, cleanVars, now, dockerVars,
                   filterVars, bridgeVars, connVars, restVars>>

\* getOrCreateSession: the double-check; return the session (deferred Unlock)
\* or go on to startCodeServer
Check2(p) ==
    /\ req[p].pc = "check2"
    /\ IF DoubleCheck(KeyOf(p))
       THEN /\ req' = [req EXCEPT ![p].ret = sessions[KeyOf(p)], ![p].pc = "update"]
            /\ mu' = NoLock
       ELSE /\ req' = [req EXCEPT ![p].pc = "start1"]
            /\ mu' = mu
    /\ UNCHANGED <<sessions, heap, nextPort, sweepVars, cleanVars, now, dockerVars,
                   filterVars, bridgeVars, connVars, restVars>>

\* allocatePort if it did not increment the counter
allocatePortReused(n) == n

\* allocatePort: port := h.nextPort; h.nextPort++ (the counter after the call)
allocatePort(n) == n + 1

\* startCodeServer: allocatePort, then docker ps finds the node container or not
StartCheck(p) ==
    /\ req[p].pc = "start1"
    /\ nextPort' = allocatePort(nextPort)
    /\ \E ok \in BOOLEAN :
          IF ok
          THEN /\ req' = [req EXCEPT ![p].port = nextPort, ![p].pc = "start2"]
               /\ mu' = mu
          ELSE /\ req' = [req EXCEPT ![p] = IdleReq]
               /\ mu' = NoLock
    /\ UNCHANGED <<sessions, heap, sweepVars, cleanVars, now, dockerVars,
                   filterVars, bridgeVars, connVars, restVars>>

\* startCodeServer: docker exec -d <node> code-server --bind-addr 0.0.0.0:<port>
StartExec(p) ==
    /\ req[p].pc = "start2"
    /\ \E ok \in BOOLEAN :
          IF ok
          THEN /\ codeServers' = codeServers \cup
                                    {[node |-> req[p].node, port |-> req[p].port]}
               /\ req' = [req EXCEPT ![p].pc = "start3"]
               /\ mu' = mu
          ELSE /\ codeServers' = codeServers
               /\ req' = [req EXCEPT ![p] = IdleReq]
               /\ mu' = NoLock
    /\ UNCHANGED <<sessions, heap, nextPort, sweepVars, cleanVars, now, proxies, stopped,
                   filterVars, bridgeVars, connVars, restVars>>

\* startCodeServer: docker inspect gives the container IP or fails; then
\* docker rm -f and docker run of the proxy container (a failure is only
\* logged) and the new IDESession, which getOrCreateSession stores in the map
\* and returns (deferred Unlock)
StartProxy(p) ==
    LET name == [slug |-> req[p].slug, port |-> req[p].port]
        session == [NodeName |-> req[p].node,
                    Port |-> ProxyBase + (req[p].port - CodeServerBase),
                    LastAccess |-> now]
    IN  /\ req[p].pc = "start3"
        /\ \/ /\ req' = [req EXCEPT ![p] = IdleReq]       \* docker inspect failed
              /\ UNCHANGED <<sessions, heap, proxies>>
           \/ /\ \E ok \in BOOLEAN :
                    proxies' = IF ok THEN proxies \cup {name} ELSE proxies \ {name}
              /\ sessions' = MapPut(sessions, KeyOf(p), Len(heap) + 1)
              /\ req' = [req EXCEPT ![p].ret = Len(heap) + 1, ![p].port = 0,
                                    ![p].pc = "update"]
              /\ heap' = Collect(Append(heap, session), sessions', req')
        /\ mu' = NoLock
        /\ UNCHANGED <<nextPort, sweepVars, cleanVars, now, codeServers, stopped,
                       filterVars, bridgeVars, connVars, restVars>>

\* HandleIDEProxy: Lock; session.LastAccess = time.Now(); Unlock
UpdateAccess(p) ==
    /\ req[p].pc = "update"
    /\ mu = NoLock
    /\ heap' = [heap EXCEPT ![req[p].ret].LastAccess = now]
    /\ req' = [req EXCEPT ![p].pc = "proxy"]
    /\ UNCHANGED <<sessions, nextPort, mu, sweepVars, cleanVars, now, dockerVars,
                   filterVars, bridgeVars, connVars, restVars>>

\* HandleIDEProxy: proxyToCodeServer served the request
ProxyDone(p) ==
    /\ req[p].pc = "proxy"
    /\ req' = [req EXCEPT ![p] = IdleReq]
    /\ heap' = Collect(heap, sessions, req')
    /\ UNCHANGED <<sessions, nextPort, mu, sweepVars, cleanVars, now, dockerVars,
                   filterVars, bridgeVars, connVars, restVars>>

\* five minutes pass and the ticker fires
Tick ==
    /\ sweepPc = "wait"
    /\ \A p \in Procs : req[p].pc \in {"idle", "proxy"}
    /\ now + TickerMinutes <= MaxClock
    /\ now' = now + TickerMinutes
    /\ tickPending' = TRUE
    /\ UNCHANGED <<sessions, heap, nextPort, mu, req, sweepPc, sweepCur, cleanVars,
                   dockerVars, filterVars, bridgeVars, connVars, restVars>>

\* cleanupIdleSessions: for range ticker.C { h.mu.Lock().  sweepCur is the
\* loop's key: it keeps the key of the last session a pass removed until the
\* next pass begins.
SweepLock ==
    /\ sweepPc = "wait"
    /\ tickPending
    /\ mu = NoLock
    /\ mu' = Sweeper
    /\ sweepPc' = "sweeping"
    /\ sweepCur' = <<>>
    /\ tickPending' = FALSE
    /\ UNCHANGED <<sessions, heap, nextPort, req, cleanVars, now, dockerVars,
                   filterVars, bridgeVars, connVars, restVars>>

\* cleanupIdleSessions: the loop reaches an idle session and calls stopSession
SweepStopBegin(k) ==
    /\ sweepPc = "sweeping"
    /\ k \in DOMAIN sessions
    /\ IsIdle(sessions[k])
    /\ sweepCur' = k
    /\ sweepPc' = "stopping"
    /\ UNCHANGED <<sessions, heap, nextPort, mu, req, tickPending, cleanVars, now,
                   dockerVars, filterVars, bridgeVars, connVars, restVars>>

\* cleanupIdleSessions: stopSession returns; delete(h.sessions, key)
SweepStopEnd ==
    /\ sweepPc = "stopping"
    /\ codeServers' = codeServers \ PkillTargets(sessions[sweepCur])
    /\ stopped' = stopped \cup {sessions[sweepCur]}
    /\ sessions' = MapDelete(sessions, sweepCur)
    /\ heap' = Collect(heap, sessions', req)
    /\ sweepPc' = "sweeping"
    /\ UNCHANGED <<nextPort, mu, req, sweepCur, tickPending, cleanVars, now, proxies,
                   filterVars, bridgeVars, connVars, restVars>>

\* cleanupIdleSessions: the loop is over; h.mu.Unlock()
SweepUnlock ==
    /\ sweepPc = "sweeping"
    /\ \A k \in DOMAIN sessions : ~IsIdle(sessions[k])
    /\ mu' = NoLock
    /\ sweepPc' = "wait"
    /\ UNCHANGED <<sessions, heap, nextPort, req, sweepCur, tickPending, cleanVars, now,
                   dockerVars, filterVars, bridgeVars, connVars, restVars>>

\* CleanupClusterSessions(slug): h.mu.Lock()
CleanLock(slug) ==
    /\ cleanPc = "idle"
    /\ mu = NoLock
    /\ mu' = Cleaner
    /\ cleanPc' = "cleaning"
    /\ cleanSlug' = slug
    /\ UNCHANGED <<sessions, heap, nextPort, req, sweepVars, cleanCur, now, dockerVars,
                   filterVars, bridgeVars, connVars, restVars>>

\* CleanupClusterSessions: the loop reaches a key with the prefix "<slug>-"
CleanStopBegin(k) ==
    /\ cleanPc = "cleaning"
    /\ k \in DOMAIN sessions
    /\ HasPrefix(k, cleanSlug \o <<"-">>)
    /\ cleanCur' = k
    /\ cleanPc' = "stopping"
    /\ UNCHANGED <<sessions, heap, nextPort, mu, req, sweepVars, cleanSlug, now,
                   dockerVars, filterVars, bridgeVars, connVars, restVars>>

\* CleanupClusterSessions: stopSession returns; delete(h.sessions, key)
CleanStopEnd ==
    /\ cleanPc = "stopping"
    /\ codeServers' = codeServers \ PkillTargets(sessions[cleanCur])
    /\ stopped' = stopped \cup {sessions[cleanCur]}
    /\ sessions' = MapDelete(sessions, cleanCur)
    /\ heap' = Collect(heap, sessions', req)
    /\ cleanCur' = <<>>
    /\ cleanPc' = "cleaning"
    /\ UNCHANGED <<nextPort, mu, req, sweepVars, cleanSlug, now, proxies,
                   filterVars, bridgeVars, connVars, restVars>>

\* CleanupClusterSessions: the loop is over; the deferred h.mu.Unlock()
CleanUnlock ==
    /\ cleanPc = "cleaning"
    /\ \A k \in DOMAIN sessions : ~HasPrefix(k, cleanSlug \o <<"-">>)
    /\ mu' = NoLock
    /\ cleanPc' = "idle"
    /\ cleanSlug' = <<>>
    /\ UNCHANGED <<sessions, heap, nextPort, req, sweepVars, cleanCur, now, dockerVars,
                   filterVars, bridgeVars, connVars, restVars>>

\* the environment: a code-server process exits
CodeServerExit(c) ==
    /\ c \in codeServers
    /\ codeServers' = codeServers \ {c}
    /\ UNCHANGED <<sessions, heap, nextPort, mu, req, sweepVars, cleanVars, now, proxies,
                   stopped, filterVars, bridgeVars, connVars, restVars>>

RegistryNext ==
    \/ \E p \in Procs, t \in Targets : Lookup(p, t)
    \/ \E p \in Procs, slug \in Slugs : Resolve(p, slug)
    \/ \E p \in Procs : LookupResolved(p)
    \/ \E p \in Procs : Check1(p)
    \/ \E p \in Procs : AcquireLock(p)
    \/ \E p \in Procs : Check2(p)
    \/ \E p \in Procs : StartCheck(p)
    \/ \E p \in Procs : StartExec(p)
    \/ \E p \in Procs : StartProxy(p)
    \/ \E p \in Procs : UpdateAccess(p)
    \/ \E p \in Procs : ProxyDone(p)
    \/ Tick
    \/ SweepLock
    \/ \E k \in DOMAIN sessions : SweepStopBegin(k)
    \/ SweepStopEnd
    \/ SweepUnlock
    \/ \E slug \in Slugs : CleanLock(slug)
    \/ \E k \in DOMAIN sessions : CleanStopBegin(k)
    \/ CleanStopEnd
    \/ CleanUnlock
    \/ \E c \in codeServers : CodeServerExit(c)

SpecRegistry == RegistryInit /\ [][RegistryNext]_vars

\* ---------------------------------------------------------------------------
\* Properties of the session registry
\* ---------------------------------------------------------------------------

\* the goroutines that are inside startCodeServer
Starting == {p \in Procs : req[p].pc \in {"start1", "start2", "start3"}}

\* a request goes from getOrCreateSession's double-check into startCodeServer
BeginsConstruction(p) == req[p].pc = "check2" /\ req'[p].pc = "start1"

\* some code-server process runs in the node of the session stored under key
HealthyInMap(key) ==
    /\ key \in DOMAIN sessions
    /\ \E c \in codeServers : c.node = heap[sessions[key]].NodeName

\* C7 as stated: a session is constructed for a key only when the map has no
\* session for that key, so that no second session is constructed while the
\* first is still in the map.
C7_OneConstructionPerKey ==
    [][\A p \in Procs : BeginsConstruction(p) => KeyOf(p) \notin DOMAIN sessions]_vars

\* C7 amended: getOrCreateSession constructs a session only while it holds
\* h.mu, so no two startCodeServer calls run at the same time, and only when
\* the key is absent from the map or the session stored under it is not
\* healthy; a caller whose double-check finds a healthy session receives that
\* very session.
C7_ConstructsWhenAbsentOrUnhealthy ==
    [][/\ \A p \in Procs :
            /\ BeginsConstruction(p) => mu = p /\ ~HealthyInMap(KeyOf(p))
            /\ req[p].pc = "check2" /\ req'[p].pc = "update"
                  => req'[p].ret = sessions[KeyOf(p)]
       /\ Cardinality({p \in Procs : req'[p].pc \in {"start1", "start2", "start3"}}) <= 1
       /\ \A p \in Procs :
            req'[p].pc \in {"start1", "start2", "start3"} => mu' = p]_vars

\* C7 witness: two concurrent callers for the same key hold the same session,
\* the one stored in the map, and startCodeServer has run exactly once.
C7_Witness ==
    /\ \A p \in Procs : req[p].pc \in {"update", "proxy"}
    /\ \A p, q \in Procs : KeyOf(p) = KeyOf(q) /\ req[p].ret = req[q].ret
    /\ \A p \in Procs : KeyOf(p) \in DOMAIN sessions /\ sessions[KeyOf(p)] = req[p].ret
    /\ nextPort = FirstPort + 1

\* C8 as stated: h.mu is not held while a session is being started
\* (startCodeServer), health-checked (the double-check of a key that is in
\* the map) or stopped (stopSession in the sweep and in the cluster cleanup).
C8_LockNotHeldAcrossIO ==
    /\ \A p \in Procs :
          mu = p => /\ p \notin Starting
                    /\ ~(req[p].pc = "check2" /\ KeyOf(p) \in DOMAIN sessions)
    /\ mu = Sweeper => sweepPc # "stopping"
    /\ mu = Cleaner => cleanPc # "stopping"

\* the last access of the session is more than 30 minutes old
OlderThanThreshold(ptr, h) == now - h[ptr].LastAccess > IdleMinutes

\* C9: when a sweep pass ends no session in the map has a last access more than
\* 30 minutes old; every step of a pass leaves every session with a more recent
\* last access in the map, with its fields and the code-server processes of
\* its node unchanged; no session that was stopped is in the map, and a
\* getOrCreateSession that starts afterwards neither reads nor returns a
\* stopped session.
C9_SweepRemovesExactlyIdle ==
    [][/\ sweepPc = "sweeping" /\ sweepPc' = "wait"
            => \A k \in DOMAIN sessions' : ~OlderThanThreshold(sessions'[k], heap')
       /\ mu = Sweeper /\ sweepPc' # sweepPc
            => \A k \in DOMAIN sessions :
                  ~OlderThanThreshold(sessions[k], heap)
                     => /\ k \in DOMAIN sessions'
                        /\ sessions'[k] = sessions[k]
                        /\ heap'[sessions[k]] = heap[sessions[k]]
                        /\ \A c \in codeServers :
                              c.node = heap[sessions[k]].NodeName => c \in codeServers'
       /\ Range(sessions') \cap stopped' = {}
       /\ \A p \in Procs :
            /\ req[p].pc \in {"idle", "resolved"} => req'[p].found \notin stopped
            /\ req[p].pc = "check2" /\ req'[p].pc = "update"
                  => req'[p].ret \notin stopped']_vars

\* C9 witness: the last sweep pass removed the session of a key, and a later
\* getOrCreateSession for that key has constructed a new session, which is in
\* the map and is the one the caller holds.
C9_Witness ==
    /\ sweepPc = "wait"
    /\ sweepCur \in DOMAIN sessions
    /\ stopped # {}
    /\ sessions[sweepCur] \notin stopped
    /\ \E p \in Procs : req[p].pc = "proxy" /\ req[p].ret = sessions[sweepCur]

\* the code-server port startCodeServer allocated for the session
AllocatedPort(ptr) == heap[ptr].Port - (ProxyBase - CodeServerBase)

\* C10 as stated: when a session leaves the map, the code-server process and
\* the ide-proxy container started for it are gone.
C10_NothingOutlivesSession ==
    [][\A ptr \in Range(sessions) \ Range(sessions') :
          /\ \A c \in codeServers' : c.port # AllocatedPort(ptr)
          /\ \A x \in proxies' : x.port # AllocatedPort(ptr)]_vars

\* C11: two requests in flight for distinct (slug, node) pairs have distinct
\* registry keys, and a request is never handed the registry entry of another
\* target: the session it receives is the session of its own node.
C11_KeysUnique ==
    /\ \A p, q \in Procs :
          (req[p].pc # "idle" /\ req[q].pc # "idle"
              /\ <<req[p].slug, req[p].node>> # <<req[q].slug, req[q].node>>)
             => KeyOf(p) # KeyOf(q)
    /\ \A p \in Procs :
          req[p].ret # Nil => heap[req[p].ret].NodeName = req[p].node

(***************************************************************************)
(* Terminal connections from the WebSocket upgrade to the handler's        *)
(* return: HandleSecureTerminalCLI with its disposable container ("cli"),  *)
(* handleWorkerNodeTerminal ("worker") and HandleTerminal ("plain", no     *)
(* filter).  Each handler call has its own conn, ptmx, cmd and cmdBuffer   *)
(* and one output pump goroutine.  conn.WriteMessage is called by the pump *)
(* and, for a warning, by the inbound loop, with nothing to serialise the  *)
(* two: when the warning is written while the pump is inside WriteMessage  *)
(* the outcome is any of those the WebSocket library allows for            *)
(* concurrent writers (both frames sent, a damaged frame, a panic in       *)
(* either goroutine).                                                      *)
(***************************************************************************)
\* bounds: inbound messages per connection, alone and with a second
\* connection, and PTY output chunks per connection, alone and with a second
\* connection
MaxConnMsgs == 3
MaxPairMsgs == 1
MaxOut == 2
MaxPairOut == 1

\* program constants
InitRows == 24           \* pty.Setsize(ptmx, &pty.Winsize{Rows: 24, Cols: 80})
InitCols == 80
Uint16Range == 65536     \* uint16(msg.Rows)

Conns == {"A", "B"}
Kinds == {"cli", "worker", "plain"}

\* the data of the input messages
ConnChunks ==
    { <<"l">>, <<"\r">>, <<"l", "s", "\r">>, <<"s", "u", "d", "o", "\r">> }

\* the (rows, cols) of the resize messages
ResizeArgs ==
    { <<30, 100>>, <<0, 100>>, <<30, 0 - 1>>, <<65566, 100>>, <<30, 65536>>,
      <<65535, 1>> }

NoMsg == [type |-> "none"]
NoChunk == <<>>

\* the handler after upgrader.Upgrade succeeded
NewConn(k) ==
    [kind |-> k, pc |-> "new", sock |-> "open",
     container |-> "none", cleanups |-> 0,
     ptmx |-> "none", child |-> "none", rows |-> 0, cols |-> 0,
     pump |-> "off", chunk |-> NoChunk, ptyOut |-> <<>>, nout |-> 0,
     cmdBuffer |-> <<>>, ptyIn |-> <<>>, wsOut |-> <<>>,
     nmsgs |-> 0, last |-> NoMsg]

\* uint16(n) for n > 0
ToUint16(n) == n % Uint16Range

\* a return that leaves the container to docker's --rm
ReturnedNoCleanup(r) ==
    [r EXCEPT !.pc = "done",
              !.ptmx = IF r.ptmx = "open" THEN "closed" ELSE r.ptmx,
              !.child = IF r.child = "running" THEN "killed" ELSE r.child,
              !.sock = "closed"]
\* the handler returns: the deferred calls run in reverse order
\* (ptmx.Close(), cmd.Process.Kill(); h.cleanupContainer(containerID);
\* conn.Close()), each only if its defer statement was reached
Returned(r) ==
    [r EXCEPT !.pc = "done",
              !.ptmx = IF r.ptmx = "open" THEN "closed" ELSE r.ptmx,
              !.child = IF r.child = "running" THEN "killed" ELSE r.child,
              !.container = IF r.container = "running" THEN "removed" ELSE r.container,
              !.cleanups = IF r.container = "none" THEN r.cleanups ELSE r.cleanups + 1,
              !.sock = "closed"]

\* conn.WriteMessage by the handler goroutine
Frame(r, f) == [r EXCEPT !.wsOut = Append(r.wsOut, f)]

ErrorFrame == [kind |-> "error"]
DataFrame(n) == [kind |-> "data", chunk |-> n]
DamagedFrame == [kind |-> "damaged"]

\* the handlers that filter the input
Filtering(r) == r.kind \in {"cli", "worker"}

\* the number of messages a connection may receive, and of output chunks its
\* child may write
Budget == IF Cardinality(peers) = 1 THEN MaxConnMsgs ELSE MaxPairMsgs
OutBudget == IF Cardinality(peers) = 1 THEN MaxOut ELSE MaxPairOut

\* the kinds in a fixed order: two connections are interchangeable, so the
\* first is given the kind that comes first
KindOrder == [k \in Kinds |-> CASE k = "cli" -> 1 [] k = "worker" -> 2 [] OTHER -> 3]

ConnInit(P) ==
    /\ peers = P
    /\ conn \in [P -> {NewConn(k) : k \in Kinds}]
    /\ P = Conns => KindOrder[conn["A"].kind] <= KindOrder[conn["B"].kind]
    /\ crashed = FALSE
    /\ FilterIdle /\ BridgeIdle /\ RegistryIdle /\ RestIdle

Alive(c) == c \in peers /\ ~crashed

ConnFrame == <<peers, filterVars, bridgeVars, registryVars, restVars>>

\* HandleSecureTerminalCLI: createAndStartContainer (docker run -d --rm ...)
CreateContainer(c) ==
    /\ Alive(c)
    /\ conn[c].kind = "cli" /\ conn[c].pc = "new"
    /\ \E ok \in BOOLEAN :
          conn' = [conn EXCEPT ![c] =
                     IF ok THEN [@ EXCEPT !.container = "running", !.pc = "created"]
                     ELSE Returned(Frame(@, ErrorFrame))]
    /\ UNCHANGED <<crashed, ConnFrame>>

\* pty.Start(cmd), the initial size, the set-up commands and the pump
\* goroutine (handleWorkerNodeTerminal first checks the node with docker ps)
StartPty(c) ==
    /\ Alive(c)
    /\ conn[c].pc = (IF conn[c].kind = "cli" THEN "created" ELSE "new")
    /\ \E ok \in BOOLEAN :
          conn' = [conn EXCEPT ![c] =
                     IF ok THEN [@ EXCEPT !.ptmx = "open", !.child = "running",
                                          !.rows = InitRows, !.cols = InitCols,
                                          !.pump = "reading", !.pc = "open"]
                     ELSE Returned(Frame(@, ErrorFrame))]
    /\ UNCHANGED <<crashed, ConnFrame>>

\* conn.ReadMessage returned a message
Got(r, m) == [r EXCEPT !.nmsgs = r.nmsgs + 1, !.last = m]

Receiving(c) == Alive(c) /\ conn[c].pc = "open" /\ conn[c].nmsgs < Budget

\* the values the line-assembly buffer takes: the concatenations of the
\* input data that have no line terminator
RECURSIVE Keystrokes(_)
Keystrokes(n) ==
    IF n = 0 THEN {<<>>}
    ELSE LET shorter == Keystrokes(n - 1)
         IN  shorter \cup {b \o SanitizeInput(d) :
                              b \in shorter,
                              d \in {x \in ConnChunks : ~HasTerminator(SanitizeInput(x))}}

\* filter.ValidateCommand(cmd) for the lines the connections can assemble
\* (computed once)
ConnVerdicts ==
    [buf \in Keystrokes(MaxConnMsgs) |->
        [d \in ConnChunks |-> LineRejected(buf \o SanitizeInput(d))]]

\* what the inbound loop does with the data of an input message
Sanitized(r, data) == IF Filtering(r) THEN SanitizeInput(data) ELSE data
Completes(r, data) == Filtering(r) /\ HasTerminator(Sanitized(r, data))
Rejects(r, data) == Completes(r, data) /\ ConnVerdicts[r.cmdBuffer][data]
Buffered(r, data) ==
    IF ~Filtering(r) THEN r.cmdBuffer
    ELSE IF Completes(r, data) THEN <<>>
    ELSE r.cmdBuffer \o Sanitized(r, data)

\* case "input": the data is written to the PTY; ptmx.Write fails only once
\* the child is gone, and then the handler returns
ConnInput(c, data) ==
    LET m == [type |-> "input", data |-> data]
        r == [Got(conn[c], m) EXCEPT !.cmdBuffer = Buffered(conn[c], data)]
    IN  /\ Receiving(c)
        /\ ~Rejects(conn[c], data)
        /\ \/ conn' = [conn EXCEPT ![c] =
                         [r EXCEPT !.ptyIn = r.ptyIn \o Sanitized(conn[c], data)]]
           \/ /\ conn[c].child # "running"
              /\ conn' = [conn EXCEPT ![c] = Returned(r)]
        /\ UNCHANGED <<crashed, ConnFrame>>

\* case "input", the completed line is rejected: (worker) "\r\n" to the PTY,
\* the warning frame, continue.  The warning is written while the pump may be
\* inside conn.WriteMessage.
ConnRejected(c, data) ==
    LET m == [type |-> "input", data |-> data]
        cmd == ExtractCommand(conn[c].cmdBuffer \o Sanitized(conn[c], data))
        r == [Got(conn[c], m) EXCEPT
                 !.cmdBuffer = <<>>,
                 !.ptyIn = conn[c].ptyIn \o RejectPtyBytes(conn[c].kind)]
        warned == Frame(r, WarningFrame(ValidateCommand(cmd).reason))
    IN  /\ Receiving(c)
        /\ Rejects(conn[c], data)
        /\ \/ /\ conn' = [conn EXCEPT ![c] = warned]
              /\ crashed' = crashed
           \/ /\ conn[c].pump = "writing"
              /\ \/ /\ conn' = [conn EXCEPT ![c] =
                                  [Frame(r, DamagedFrame) EXCEPT !.pump = "reading",
                                                                 !.chunk = NoChunk]]
                    /\ crashed' = crashed
                 \/ /\ conn' = [conn EXCEPT ![c] = Returned(r)]
                    /\ crashed' = crashed
                 \/ /\ conn' = [conn EXCEPT ![c] = r]
                    /\ crashed' = TRUE
        /\ UNCHANGED ConnFrame

\* a handler that gives up the connection on a message it cannot parse
ConnMalformedCloses(c) ==
    /\ Receiving(c)
    /\ conn' = [conn EXCEPT ![c] = Returned(Got(@, [type |-> "malformed"]))]
    /\ UNCHANGED <<crashed, ConnFrame>>
\* json.Unmarshal fails: log, continue
ConnMalformed(c) ==
    /\ Receiving(c)
    /\ conn' = [conn EXCEPT ![c] = Got(@, [type |-> "malformed"])]
    /\ UNCHANGED <<crashed, ConnFrame>>

\* case "resize"
ConnResize(c, rows, cols) ==
    LET r == Got(conn[c], [type |-> "resize", rows |-> rows, cols |-> cols])
    IN  /\ Receiving(c)
        /\ conn' = [conn EXCEPT ![c] =
                      IF rows > 0 /\ cols > 0
                      THEN [r EXCEPT !.rows = ToUint16(rows), !.cols = ToUint16(cols)]
                      ELSE r]
        /\ UNCHANGED <<crashed, ConnFrame>>

\* conn.ReadMessage fails (the client closed, or the network did): return
ConnReadError(c) ==
    /\ Alive(c) /\ conn[c].pc = "open"
    /\ conn' = [conn EXCEPT ![c] = Returned(@)]
    /\ UNCHANGED <<crashed, ConnFrame>>

\* the child process writes a chunk of output to its terminal: the n-th chunk
\* of connection c is <<c, n>>
ChildOutput(c) ==
    /\ Alive(c) /\ conn[c].child = "running" /\ conn[c].nout < OutBudget
    /\ conn' = [conn EXCEPT ![c] = [@ EXCEPT !.nout = @ + 1,
                                             !.ptyOut = Append(@, <<c, conn[c].nout + 1>>)]]
    /\ UNCHANGED <<crashed, ConnFrame>>

\* the child process exits (the user typed exit, or the node went away)
ChildExit(c) ==
    /\ Alive(c) /\ conn[c].child = "running"
    /\ conn' = [conn EXCEPT ![c].child = "exited"]
    /\ UNCHANGED <<crashed, ConnFrame>>

\* the pump: n, err := ptmx.Read(buf); on an error the goroutine returns
PumpRead(c) ==
    /\ Alive(c) /\ conn[c].pump = "reading"
    /\ IF conn[c].ptmx = "closed"
       THEN conn' = [conn EXCEPT ![c].pump = "stopped"]
       ELSE IF conn[c].ptyOut # <<>>
       THEN conn' = [conn EXCEPT ![c] = [@ EXCEPT !.chunk = Head(conn[c].ptyOut),
                                                  !.ptyOut = Tail(conn[c].ptyOut),
                                                  !.pump = "writing"]]
       ELSE /\ conn[c].child # "running"
            /\ conn' = [conn EXCEPT ![c].pump = "stopped"]
    /\ UNCHANGED <<crashed, ConnFrame>>

\* the pump: conn.WriteMessage(websocket.TextMessage, buf[:n]); on an error
\* the goroutine returns
PumpWrite(c) ==
    /\ Alive(c) /\ conn[c].pump = "writing"
    /\ \/ /\ conn[c].sock = "open"
          /\ conn' = [conn EXCEPT ![c] =
                        [Frame(@, DataFrame(conn[c].chunk)) EXCEPT !.pump = "reading",
                                                                   !.chunk = NoChunk]]
       \/ conn' = [conn EXCEPT ![c] = [@ EXCEPT !.pump = "stopped", !.chunk = NoChunk]]
    /\ UNCHANGED <<crashed, ConnFrame>>

PumpNext == \E c \in Conns : PumpRead(c) \/ PumpWrite(c)

ConnNext ==
    \/ \E c \in Conns : CreateContainer(c)
    \/ \E c \in Conns : StartPty(c)
    \/ \E c \in Conns, data \in ConnChunks : ConnInput(c, data)
    \/ \E c \in Conns, data \in ConnChunks : ConnRejected(c, data)
    \/ \E c \in Conns : ConnMalformed(c)
    \/ \E c \in Conns, a \in ResizeArgs : ConnResize(c, a[1], a[2])
    \/ \E c \in Conns : ConnReadError(c)
    \/ \E c \in Conns : ChildOutput(c)
    \/ \E c \in Conns : ChildExit(c)
    \/ \E c \in Conns : PumpRead(c)
    \/ \E c \in Conns : PumpWrite(c)

\* one connection
SpecConn == ConnInit({"A"}) /\ [][ConnNext]_vars

\* two concurrent connections
SpecPair == ConnInit(Conns) /\ [][ConnNext]_vars

\* one connection whose pump goroutine is scheduled whenever it can run
SpecConnLive == ConnInit({"A"}) /\ [][ConnNext]_vars /\ WF_vars(PumpNext)

\* bound: the longest white-space text given to ValidateCommand
MaxBlank == 3

RECURSIVE Blanks(_)
Blanks(n) ==
    IF n = 0 THEN {<<>>}
    ELSE LET shorter == Blanks(n - 1)
         IN  shorter \cup {s \o <<c>> : s \in shorter, c \in GoSpace}

\* the line an input message completes, without its terminators
Unterminated(buf) == RemoveAll(RemoveAll(buf, "\n"), "\r")

\* C20: ValidateCommand returns Accepted for the empty string and for every
\* text made only of white space; and when an input message completes a
\* line that is empty without its terminators, the bridge does not call
\* ValidateCommand, sends no warning, and writes the data to the PTY.
C20_EmptyAccepted ==
    [][/\ \A w \in Blanks(MaxBlank) : ValidateCommand(w) = Accepted
       /\ (InputStep /\ HasTerminator(SanitizeInput(lastMsg'.data))
              /\ Unterminated(cmdBuffer \o SanitizeInput(lastMsg'.data)) = <<>>)
            => /\ ~lastMsg'.checked
               /\ wsOut' = wsOut /\ blockedLog' = blockedLog
               /\ bpc' = "open" =>
                     ptyIn' = ptyIn \o SanitizeInput(lastMsg'.data)]_vars

\* Enter on an empty line was forwarded without a policy check
C20_Witness ==
    /\ bpc = "open" /\ nmsgs = 1 /\ lastMsg.type = "input"
    /\ lastMsg.data = <<"\r">> /\ ~lastMsg.checked
    /\ ptyIn = <<"\r">> /\ wsOut = <<>> /\ cmdBuffer = <<>>

\* C12: connections are isolated: a step that changes one connection leaves
\* every other connection, and the server they share, as they were, and
\* every data frame sent on a connection carries a chunk read from that
\* connection's own PTY.
C12_Isolated ==
    [][/\ \A c, d \in peers :
            (c # d /\ conn'[c] # conn[c]) => (conn'[d] = conn[d] /\ crashed' = crashed)
       /\ \A c \in peers : \A i \in 1..Len(conn'[c].wsOut) :
            conn'[c].wsOut[i].kind = "data" => conn'[c].wsOut[i].chunk[1] = c]_vars

\* C13: once the output pump has stopped while the handler is running, the
\* inbound loop stops as well: the handler returns and the connection is
\* closed, whatever the client does (the pump goroutine being scheduled
\* whenever it can run).
C13_PumpStopEndsBridge ==
    (conn["A"].pump = "stopped" /\ conn["A"].pc = "open")
        ~> (conn["A"].pc = "done" /\ conn["A"].sock = "closed")

\* C14: once createAndStartContainer has succeeded, the handler's return, by
\* whatever path, has closed the PTY, killed the child, stopped and removed
\* the container and closed the connection, and cleanupContainer has been
\* called exactly once; it is never called twice.
C14_TeardownComplete ==
    \A c \in peers :
        /\ conn[c].cleanups <= 1
        /\ (conn[c].pc = "done" /\ conn[c].container # "none")
              => /\ conn[c].container = "removed"
                 /\ conn[c].cleanups = 1
                 /\ conn[c].ptmx # "open"
                 /\ conn[c].child # "running"
                 /\ conn[c].sock = "closed"

\* C14 witness: a container handler returned while its shell was running: the
\* PTY is closed, the child killed and the container removed.
C14_Witness ==
    /\ conn["A"].kind = "cli" /\ conn["A"].pc = "done"
    /\ conn["A"].ptmx = "closed" /\ conn["A"].child = "killed"
    /\ conn["A"].container = "removed" /\ conn["A"].cleanups = 1

\* C15: when startCodeServer returns an error, the map is as it was and
\* neither the code-server process nor the proxy container of the port the
\* failed attempt allocated is running.
C15_FailedCreationLeavesNothing ==
    [][\A p \in Procs :
          (p \in Starting /\ req'[p].pc = "idle")
             => /\ sessions' = sessions
                /\ \A c \in codeServers' : c.port # req[p].port
                /\ \A x \in proxies' : x.port # req[p].port]_vars

\* the step receives a message of the given type on connection c
Receives(c, type) ==
    conn'[c].nmsgs = conn[c].nmsgs + 1 /\ conn'[c].last.type = type

\* C16: a message that is not valid JSON is dropped with no other effect:
\* nothing is written to the PTY or sent to the client, the buffer and the PTY
\* size are unchanged, and the handler stays in its loop with the connection
\* open.
C16_MalformedDropped ==
    [][\A c \in peers :
          Receives(c, "malformed")
             => /\ conn'[c] = [conn[c] EXCEPT !.nmsgs = conn'[c].nmsgs,
                                              !.last = conn'[c].last]
                /\ conn'[c].pc = "open" /\ conn'[c].sock = "open"
                /\ crashed' = crashed]_vars

\* C16 witness: a malformed message arrived in the middle of a line: the
\* handler is in its loop, and the buffer and the PTY hold the line's start.
C16_Witness ==
    /\ conn["A"].kind = "worker" /\ conn["A"].pc = "open"
    /\ conn["A"].last.type = "malformed"
    /\ conn["A"].cmdBuffer = <<"l">> /\ conn["A"].ptyIn = <<"l">>

\* C17: a resize message changes the PTY size if and only if rows > 0 and
\* cols > 0, and then the size is exactly (rows, cols), also above 65535.
C17_ResizeExact ==
    [][\A c \in peers :
          Receives(c, "resize")
             => LET m == conn'[c].last
                IN  IF m.rows > 0 /\ m.cols > 0
                    THEN conn'[c].rows = m.rows /\ conn'[c].cols = m.cols
                    ELSE conn'[c].rows = conn[c].rows /\ conn'[c].cols = conn[c].cols]_vars

\* the frames of a connection that are not warnings or error texts of the
\* handler: what the client receives of the PTY's output
OutputFrames(r) == SelectSeq(r.wsOut, LAMBDA f : f.kind \in {"data", "damaged"})

\* C18: relaying is FIFO in both directions: the output the client receives
\* is the chunks read from the PTY, whole and in the order they were read
\* (the k-th output frame is the k-th chunk), and a step that forwards an
\* input message appends that message's data to what was written to the PTY
\* before.
C18_Fifo ==
    [][\A c \in peers :
          /\ \A k \in 1..Len(OutputFrames(conn'[c])) :
                OutputFrames(conn'[c])[k] = DataFrame(<<c, k>>)
          /\ (Receives(c, "input") /\ conn'[c].pc = "open"
                 /\ ~Rejects(conn[c], conn'[c].last.data))
                => conn'[c].ptyIn = conn[c].ptyIn \o Sanitized(conn[c], conn'[c].last.data)]_vars

\* the slug the session stored under key k was created for: the key is
\* "<slug>-<NodeName>" and the session keeps its NodeName
CreatedFor(k) == SubSeq(k, 1, Len(k) - Len(heap[sessions[k]].NodeName) - 1)

\* C27: CleanupClusterSessions(slug) stops and deletes only sessions that
\* were created for that slug, and when it returns no session created for
\* the slug is left in the registry.
C27_CleanupExact ==
    [][mu = Cleaner =>
          /\ \A k \in DOMAIN sessions \ DOMAIN sessions' : CreatedFor(k) = cleanSlug
          /\ \A k \in DOMAIN sessions :
                sessions[k] \in stopped' \ stopped => CreatedFor(k) = cleanSlug
          /\ (cleanPc = "cleaning" /\ cleanPc' = "idle")
                => \A k \in DOMAIN sessions : CreatedFor(k) # cleanSlug]_vars


\* C28: at most one goroutine writes to a connection's WebSocket at a time:
\* the inbound loop never writes its warning frame while the pump
\* goroutine is inside conn.WriteMessage on the same connection.
C28_OneWriter ==
    [][\A c \in peers :
          (Receives(c, "input") /\ Rejects(conn[c], conn'[c].last.data))
              => conn[c].pump # "writing"]_vars


\* C29: a session in use is not swept: when a request updates LastAccess
\* of the session getOrCreateSession returned to it, and when it has been
\* proxied to it, the session is still in the registry and was not
\* stopped, whatever cleanupIdleSessions and CleanupClusterSessions did in
\* between.
C29_InUseNotSwept ==
    [][\A p \in Procs :
          (req[p].pc \in {"update", "proxy"} /\ req'[p].pc # req[p].pc)
              => /\ req[p].ret \in Range(sessions)
                 /\ req[p].ret \notin stopped]_vars


\* the ports a call of startCodeServer in progress or a registered session holds
PortsInUse ==
    {req[p].port : p \in {q \in Procs : req[q].pc \in {"start2", "start3"}}}
        \cup {AllocatedPort(sessions[k]) : k \in DOMAIN sessions}

\* C30: nextPort never decreases; a call of startCodeServer takes the port
\* nextPort and moves the counter past it, whether or not the call then
\* fails, so the port is below the counter ever after and was given to
\* no one before; and no two sessions in the registry have the same Port.
C30_PortsNeverShared ==
    [][/\ nextPort' >= nextPort
       /\ \A p \in Procs :
             (req[p].pc = "start1" /\ req'[p].pc # "start1")
                 => /\ nextPort' = nextPort + 1
                    /\ nextPort \notin PortsInUse
                    /\ req'[p].pc = "start2" => req'[p].port = nextPort
       /\ \A x \in PortsInUse' : x < nextPort'
       /\ \A j, k \in DOMAIN sessions' :
             heap'[sessions'[j]].Port = heap'[sessions'[k]].Port => j = k]_vars

\* two sessions are registered, on the two ports that were allocated
C30_Witness ==
    /\ Cardinality(DOMAIN sessions) = 2
    /\ nextPort = FirstPort + 2
    /\ {heap[sessions[k]].Port : k \in DOMAIN sessions}
          = {ProxyBase + 1, ProxyBase + 2}


(***************************************************************************)
(* Server start-up (main.go): the registration of the terminal route and   *)
(* the call of ListenAndServe.  NewSecureTerminalCLIHandler runs `docker   *)
(* version` and `docker images -q cks-weight-room/terminal:latest`.        *)
(***************************************************************************)
\* the values SECURE_TERMINAL is started with; <<>> is the unset variable
EnvValues ==
    { <<>>, <<"t","r","u","e">>, <<"T","R","U","E">>, <<"1">>,
      <<"f","a","l","s","e">>, <<"t","r","u","e"," ">> }

\* os.Getenv("SECURE_TERMINAL") == "true" if the comparison ignored the case
SecureRequestedAnyCase(e) == e \in {<<"t","r","u","e">>, <<"T","R","U","E">>}

\* os.Getenv("SECURE_TERMINAL") == "true"
SecureRequested(e) == e = <<"t","r","u","e">>

\* http.HandleFunc("/api/terminal/", h)
Register(h) == routes' = Append(routes, h)

StartInit ==
    /\ env \in EnvValues
    /\ dockerd \in {"up", "down"}
    /\ image \in {"present", "absent", "error"}
    /\ listenPort \in {"free", "busy"}
    /\ spc = "terminalRoute"
    /\ routes = <<>>
    /\ elapsed = 0 /\ UiIdle
    /\ FilterIdle /\ BridgeIdle /\ RegistryIdle /\ ConnIdle

StartFrame == <<env, dockerd, image, listenPort, elapsed, uiVars,
                filterVars, bridgeVars, registryVars, connVars>>

\* SECURE_TERMINAL is not "true": the standard handler is registered
StandardMode ==
    /\ spc = "terminalRoute"
    /\ ~SecureRequested(env)
    /\ Register("HandleTerminal")
    /\ spc' = "listen"
    /\ UNCHANGED StartFrame

\* SECURE_TERMINAL is "true": NewSecureTerminalCLIHandler is called
SecureMode ==
    /\ spc = "terminalRoute"
    /\ SecureRequested(env)
    /\ spc' = "dockerVersion"
    /\ UNCHANGED <<routes, StartFrame>>

\* exec.Command("docker", "version").Run() succeeds
DockerVersionOk ==
    /\ spc = "dockerVersion"
    /\ dockerd = "up"
    /\ spc' = "dockerImages"
    /\ UNCHANGED <<routes, StartFrame>>

\* `docker version` fails: the constructor returns an error, main falls back
DockerVersionFails ==
    /\ spc = "dockerVersion"
    /\ dockerd = "down"
    /\ Register("HandleTerminal")
    /\ spc' = "listen"
    /\ UNCHANGED StartFrame

\* `docker images -q` prints an image id: the secure handler is registered
ImageFound ==
    /\ spc = "dockerImages"
    /\ image = "present"
    /\ Register("HandleSecureTerminalCLI")
    /\ spc' = "listen"
    /\ UNCHANGED StartFrame

\* `docker images -q` fails or prints nothing: error, main falls back
ImageMissing ==
    /\ spc = "dockerImages"
    /\ image # "present"
    /\ Register("HandleTerminal")
    /\ spc' = "listen"
    /\ UNCHANGED StartFrame

\* http.ListenAndServe blocks: the server is serving
Listen ==
    /\ spc = "listen"
    /\ listenPort = "free"
    /\ spc' = "serving"
    /\ UNCHANGED <<routes, StartFrame>>

\* http.ListenAndServe returns an error: log.Fatalf
ListenFails ==
    /\ spc = "listen"
    /\ listenPort = "busy"
    /\ spc' = "exited"
    /\ UNCHANGED <<routes, StartFrame>>

StartNext ==
    \/ StandardMode
    \/ SecureMode
    \/ DockerVersionOk
    \/ DockerVersionFails
    \/ ImageFound
    \/ ImageMissing
    \/ Listen
    \/ ListenFails

SpecStart == StartInit /\ [][StartNext]_vars

\* C22: once main is past the terminal route, exactly one handler is
\* registered for /api/terminal/: HandleSecureTerminalCLI if and only if
\* SECURE_TERMINAL is "true", docker is available and the terminal image is
\* present, HandleTerminal otherwise; and before that point main has not
\* exited, so a failure of the secure set-up never stops the server.
C22_OneTerminalRoute ==
    /\ spc \in {"listen", "serving", "exited"} =>
          /\ Len(routes) = 1
          /\ routes[1] = IF env = <<"t","r","u","e">> /\ dockerd = "up"
                            /\ image = "present"
                         THEN "HandleSecureTerminalCLI" ELSE "HandleTerminal"
    /\ spc = "exited" => listenPort = "busy"
    /\ spc \notin {"listen", "serving", "exited"} => routes = <<>>

\* secure mode was asked for, the image is missing, the server serves
\* with the standard handler
C22_Witness ==
    /\ env = <<"t","r","u","e">> /\ dockerd = "up" /\ image = "absent"
    /\ spc = "serving" /\ routes = <<"HandleTerminal">>

(***************************************************************************)
(* The clock of a secure terminal session: HandleSecureTerminalCLI with    *)
(* the hours that pass while its container runs.  No statement of the      *)
(* handler reads the clock; the container runs `sleep infinity`.           *)
(***************************************************************************)
\* terminalTimeoutCLI = 2 * time.Hour
TimeoutHours == 2

\* bound: the clock stops after MaxHours hours
MaxHours == 3

TimedInit == ConnInit({"A"}) /\ conn["A"].kind = "cli"

\* an hour passes while the session's container runs
HourPasses ==
    /\ conn["A"].container = "running"
    /\ elapsed < MaxHours
    /\ elapsed' = elapsed + 1
    /\ UNCHANGED <<connVars, startVars, uiVars, filterVars, bridgeVars, registryVars>>

TimedNext == ConnNext \/ HourPasses

\* the clock advances and the pump goroutine is scheduled
SpecTimed ==
    TimedInit /\ [][TimedNext]_vars /\ WF_vars(HourPasses) /\ WF_vars(PumpNext)

\* C23: a secure terminal session that has been running for
\* terminalTimeoutCLI is eventually terminated by the server: the handler
\* returns, the PTY is closed and the container removed.
C23_SessionTimesOut ==
    (conn["A"].container = "running" /\ elapsed >= TimeoutHours)
        ~> (conn["A"].pc = "done" /\ conn["A"].ptmx # "open"
              /\ conn["A"].container = "removed")

(***************************************************************************)
(* The multi-terminal client (web/components/MultiTerminal.tsx).  A pane   *)
(* id `pane-<n>` is the number n and a terminal id                         *)
(* `<paneId>-terminal-<m>` is the pair <<n, m>>: the two formats are       *)
(* one-to-one on numbers.  A step is one event handler or one timer        *)
(* callback, followed by the render it causes; the timers all have the     *)
(* same delay, so they fire in the order they were set.  A WebSocket is    *)
(* its index in sockets; 0 is the null of a placeholder.                   *)
(***************************************************************************)
\* bound: number of user operations (clicks, node changes) of a run
MaxUiOps == 5

NoTerminal == <<>>      \* activeTerminalId ''
NullWs == 0             \* ws: null as any

\* the part of the state the handlers work on
UiState == [panes |-> panes, inst |-> instancesRef, refs |-> terminalRefs,
            socks |-> sockets]

\* `${paneId}-terminal-${n}`
TerminalId(paneId, n) == <<paneId, n>>

\* the placeholder entry of a terminal that is not initialised yet
Placeholder(tid) == [id |-> tid, ws |-> NullWs]

\* the ids of the terminals of a pane, in order
TerminalIds(pane) == [i \in 1..Len(pane.terminals) |-> pane.terminals[i].id]

\* the calls initializeTerminal(pane.id, terminal.id) for every terminal
RECURSIVE AllTerminals(_)
AllTerminals(ps) ==
    IF ps = <<>> THEN <<>>
    ELSE [i \in 1..Len(Head(ps).terminals) |->
             <<Head(ps).id, Head(ps).terminals[i].id>>] \o AllTerminals(Tail(ps))

\* the render after a state change: the ref callback of every terminal's
\* element stores it in terminalRefs; nothing ever removes an entry
Render(u) ==
    [u EXCEPT !.refs = u.refs \cup
        UNION {{u.panes[i].terminals[j].id : j \in 1..Len(u.panes[i].terminals)} :
                  i \in 1..Len(u.panes)}]

\* panes.find(p => p.id === paneId): the index of the first such pane, or 0
Find(ps, paneId) ==
    IF \E i \in 1..Len(ps) : ps[i].id = paneId
    THEN CHOOSE i \in 1..Len(ps) :
            ps[i].id = paneId /\ \A j \in 1..(i - 1) : ps[j].id # paneId
    ELSE 0

\* instance = instancesRef.current.get(id); if (instance) { instance.ws.close();
\* instance.term.dispose(); instancesRef.current.delete(id) }
CloseInstance(u, tid) ==
    IF tid \in DOMAIN u.inst
    THEN [u EXCEPT !.socks[u.inst[tid]].open = FALSE,
                   !.inst = [t \in DOMAIN u.inst \ {tid} |-> u.inst[t]]]
    ELSE u

RECURSIVE CloseInstances(_, _)
CloseInstances(u, tids) ==
    IF tids = <<>> THEN u
    ELSE CloseInstances(CloseInstance(u, Head(tids)), Tail(tids))

\* initializeTerminal(paneId, terminalId, title, node)
InitializeTerminal(u, paneId, tid) ==
    IF tid \notin u.refs THEN u
    ELSE LET w == Len(u.socks) + 1
         IN  [u EXCEPT
                !.socks = Append(u.socks, [terminal |-> tid, open |-> TRUE]),
                !.inst = [t \in DOMAIN u.inst \cup {tid} |->
                             IF t = tid THEN w ELSE u.inst[t]],
                !.panes = [i \in 1..Len(u.panes) |->
                    IF u.panes[i].id = paneId
                    THEN [u.panes[i] EXCEPT !.terminals =
                            [j \in 1..Len(u.panes[i].terminals) |->
                                IF u.panes[i].terminals[j].id = tid
                                THEN [id |-> tid, ws |-> w]
                                ELSE u.panes[i].terminals[j]]]
                    ELSE u.panes[i]]]

\* the callback of one setTimeout: its calls of initializeTerminal, in order
RECURSIVE RunCalls(_, _)
RunCalls(u, calls) ==
    IF calls = <<>> THEN u
    ELSE RunCalls(InitializeTerminal(u, Head(calls)[1], Head(calls)[2]), Tail(calls))

\* the first-terminal effect: pane-1 with its placeholder terminal
FirstPane(u) ==
    [u EXCEPT !.panes = << [id |-> 1,
                            terminals |-> <<Placeholder(TerminalId(1, 1))>>,
                            activeTerminalId |-> TerminalId(1, 1)] >>]

\* addTab(paneId)
AddedTab(u, paneId) ==
    LET pane == u.panes[Find(u.panes, paneId)]
        tid == TerminalId(paneId, Len(pane.terminals) + 1)
    IN  [u EXCEPT !.panes = [i \in 1..Len(u.panes) |->
            IF u.panes[i].id = paneId
            THEN [u.panes[i] EXCEPT
                    !.terminals = Append(u.panes[i].terminals, Placeholder(tid)),
                    !.activeTerminalId = tid]
            ELSE u.panes[i]]]

\* the setPanes of closeTab(paneId, terminalId)
WithoutTab(pane, tid) ==
    LET newTerminals == SelectSeq(pane.terminals, LAMBDA t : t.id # tid)
    IN  [pane EXCEPT
           !.terminals = newTerminals,
           !.activeTerminalId =
               IF Len(newTerminals) > 0
               THEN (IF pane.activeTerminalId = tid THEN newTerminals[1].id
                     ELSE pane.activeTerminalId)
               ELSE NoTerminal]

\* closeTab(paneId, terminalId)
ClosedTab(u, paneId, tid) ==
    LET v == CloseInstance(u, tid)
    IN  [v EXCEPT !.panes = [i \in 1..Len(v.panes) |->
            IF v.panes[i].id = paneId THEN WithoutTab(v.panes[i], tid)
            ELSE v.panes[i]]]

\* splitPane(direction)
SplitPaneState(u) ==
    LET newPaneId == Len(u.panes) + 1
    IN  [u EXCEPT !.panes = Append(u.panes,
            [id |-> newPaneId,
             terminals |-> <<Placeholder(TerminalId(newPaneId, 1))>>,
             activeTerminalId |-> TerminalId(newPaneId, 1)])]

\* closePane(paneId)
ClosedPane(u, paneId) ==
    LET pane == u.panes[Find(u.panes, paneId)]
        v == CloseInstances(u, TerminalIds(pane))
    IN  [v EXCEPT !.panes = SelectSeq(v.panes, LAMBDA q : q.id # paneId)]

\* the state after a handler, rendered, with the timers it has set
Commit(u, newTimers) ==
    LET v == Render(u)
    IN  /\ panes' = v.panes
        /\ instancesRef' = v.inst
        /\ terminalRefs' = v.refs
        /\ sockets' = v.socks
        /\ timers' = timers \o newTimers

UiFrame == <<startVars, elapsed, filterVars, bridgeVars, registryVars, connVars>>

UiInit ==
    /\ UiIdle
    /\ StartIdle /\ elapsed = 0
    /\ FilterIdle /\ BridgeIdle /\ RegistryIdle /\ ConnIdle

\* a user operation
UserOp ==
    /\ uiOps < MaxUiOps
    /\ uiOps' = uiOps + 1

\* the effect that creates the first terminal once the node is known
FirstTerminal ==
    /\ panes = <<>> /\ terminalRefs = {}
    /\ Commit(FirstPane(UiState), << <<<<1, TerminalId(1, 1)>>>> >>)
    /\ UNCHANGED <<uiOps, UiFrame>>

\* a click on the + of pane i
addTab(i) ==
    /\ i \in 1..Len(panes)
    /\ UserOp
    /\ LET paneId == panes[i].id
           pane == panes[Find(panes, paneId)]
       IN  Commit(AddedTab(UiState, paneId),
                  << << <<paneId, TerminalId(paneId, Len(pane.terminals) + 1)>> >> >>)
    /\ UNCHANGED UiFrame

\* a click on the X of tab j of pane i, shown when the pane has several tabs
closeTab(i, j) ==
    /\ i \in 1..Len(panes)
    /\ j \in 1..Len(panes[i].terminals)
    /\ Len(panes[i].terminals) > 1
    /\ UserOp
    /\ Commit(ClosedTab(UiState, panes[i].id, panes[i].terminals[j].id), <<>>)
    /\ UNCHANGED UiFrame

\* a click on tab j of pane i
selectTab(i, j) ==
    /\ i \in 1..Len(panes)
    /\ j \in 1..Len(panes[i].terminals)
    /\ panes[i].activeTerminalId # panes[i].terminals[j].id
    /\ UserOp
    /\ Commit([UiState EXCEPT !.panes = [k \in 1..Len(panes) |->
                  IF panes[k].id = panes[i].id
                  THEN [panes[k] EXCEPT
                          !.activeTerminalId = panes[i].terminals[j].id]
                  ELSE panes[k]]], <<>>)
    /\ UNCHANGED UiFrame

\* a click on one of the split buttons
splitPane ==
    /\ panes # <<>>
    /\ UserOp
    /\ LET newPaneId == Len(panes) + 1
       IN  Commit(SplitPaneState(UiState),
                  << << <<newPaneId, TerminalId(newPaneId, 1)>> >> >>)
    /\ UNCHANGED UiFrame

\* a click on the X of pane i, shown when there are several panes
closePane(i) ==
    /\ i \in 1..Len(panes)
    /\ Len(panes) > 1
    /\ UserOp
    /\ Commit(ClosedPane(UiState, panes[i].id), <<>>)
    /\ UNCHANGED UiFrame

\* the node selector changes selectedNode: with no pane the first-terminal
\* effect runs, otherwise every instance is closed and a timer will
\* initialise every terminal of the panes of this render
NodeChange ==
    /\ terminalRefs # {}
    /\ UserOp
    /\ IF panes = <<>>
       THEN Commit(FirstPane(UiState), << <<<<1, TerminalId(1, 1)>>>> >>)
       ELSE LET calls == AllTerminals(panes)
            IN  Commit(CloseInstances(UiState, [k \in 1..Len(calls) |-> calls[k][2]]),
                       <<calls>>)
    /\ UNCHANGED UiFrame

\* the oldest timer fires
TimerFires ==
    /\ timers # <<>>
    /\ LET v == RunCalls(UiState, Head(timers))
       IN  /\ panes' = v.panes
           /\ instancesRef' = v.inst
           /\ terminalRefs' = v.refs
           /\ sockets' = v.socks
    /\ timers' = Tail(timers)
    /\ UNCHANGED <<uiOps, UiFrame>>

UiNext ==
    \/ FirstTerminal
    \/ \E i \in 1..MaxUiOps + 1 : addTab(i)
    \/ \E i, j \in 1..MaxUiOps + 1 : closeTab(i, j)
    \/ \E i, j \in 1..MaxUiOps + 1 : selectTab(i, j)
    \/ splitPane
    \/ \E i \in 1..MaxUiOps + 1 : closePane(i)
    \/ NodeChange
    \/ TimerFires

SpecUi == UiInit /\ [][UiNext]_vars

\* the terminals of the panes state, as places <<pane index, tab index>>
Shown == UNION {{<<i, j>> : j \in 1..Len(panes[i].terminals)} : i \in 1..Len(panes)}

ShownId(x) == panes[x[1]].terminals[x[2]].id

\* C24: in the panes state no two panes have the same id and no two
\* terminals have the same id, after any sequence of addTab, closeTab,
\* splitPane and closePane.
C24_IdsUnique ==
    /\ \A i, j \in 1..Len(panes) : panes[i].id = panes[j].id => i = j
    /\ \A x, y \in Shown : ShownId(x) = ShownId(y) => x = y

\* C25: once the first terminal exists there is at least one pane, every
\* pane has at least one terminal, and each pane's activeTerminalId is the
\* id of one of its terminals, after any sequence of operations the UI
\* offers.
C25_NeverEmpty ==
    terminalRefs # {} =>
        /\ Len(panes) >= 1
        /\ \A i \in 1..Len(panes) :
              /\ Len(panes[i].terminals) >= 1
              /\ \E j \in 1..Len(panes[i].terminals) :
                    panes[i].activeTerminalId = panes[i].terminals[j].id

\* the open WebSockets created for terminal id tid
OpenFor(tid) == {w \in 1..Len(sockets) : sockets[w].open /\ sockets[w].terminal = tid}

\* C26: no open WebSocket belongs to a terminal that is no longer in the
\* panes state, whenever the terminal was closed, before or after its
\* delayed initializeTerminal; and every terminal shown has at most one
\* open WebSocket, exactly one once no initialisation is pending.
C26_SocketsReleased ==
    /\ \A w \in 1..Len(sockets) :
          sockets[w].open => \E x \in Shown : ShownId(x) = sockets[w].terminal
    /\ \A x \in Shown :
          /\ Cardinality(OpenFor(ShownId(x))) <= 1
          /\ timers = <<>> => Cardinality(OpenFor(ShownId(x))) = 1

====
